---------------------------- MODULE Spec2Model ----------------------------
(*
  Model of BinkAgentNode.execute (src/nodes/BinkAgentNode/BinkAgentNode.node.ts):
  the batch driver that, per input item, builds a wallet and an N8nBinkAgent,
  registers the discovered plugins, runs the agent once, normalizes the
  response and isolates per-item failures.

  N8nBinkAgent itself (../N8NBase/N8nBinkAgent) is not part of the sources at
  hand; its state machine is modelled from the specification document
  (sections 4.4 and 7) and is marked as such in the model map.
*)
EXTENDS Integers, Sequences, FiniteSets, TLC

(***************************************************************************)
(* Bounds of the model                                                      *)
(***************************************************************************)
MaxItems == 2
MaxTools == 2
MaxIter == 2
MaxPlan == 1
MaxLateCalls == 1

(***************************************************************************)
(* Values                                                                   *)
(***************************************************************************)
\* JavaScript's undefined: an absent plugin, mnemonic or input text.
Undefined == "undefined"

\* The two values of the `agent` option list.
AgentModes == {"toolsAgent", "planAndExecuteAgent"}

\* The fallback seed phrase and derivation index of the wallet.
PLACEHOLDER_SEED == "test test test test test test test test test test test test"

WALLET_INDEX == 0

\* The fields lodash's omit is asked to drop.
OMITTED_FIELDS == {"system_message", "formatting_instructions", "input",
                   "chat_history", "agent_scratchpad"}

\* The message of the NodeOperationError raised for a missing prompt.
EMPTY_TEXT_MESSAGE == "The \"text\" parameter is empty."

\* The message recorded when the caught error carries none.
DEFAULT_ERROR_MESSAGE == "An error occurred"

Terminal == {"Completed", "MaxIterationsReached", "Failed"}

(***************************************************************************)
(* JSON: a string is modelled by its sequence of lexical tokens             *)
(***************************************************************************)
P(s) == [k |-> "punct", s |-> s]
S(s) == [k |-> "str", s |-> s]
N(s) == [k |-> "num", s |-> s]
L(s) == [k |-> "lit", s |-> s]
W(s) == [k |-> "word", s |-> s]

JNull == [t |-> "null"]
JNum(s) == [t |-> "num", v |-> s]
JStr(s) == [t |-> "str", v |-> s]
JObj(m) == [t |-> "obj", m |-> m]
\* A string that was never parsed (the agent's textual output).
JRaw(toks) == [t |-> "raw", v |-> toks]

ParseFail == [ok |-> FALSE]
ParseOk(v, n) == [ok |-> TRUE, val |-> v, next |-> n]

RECURSIVE JsonValue(_, _)
RECURSIVE JsonMembers(_, _, _)

\* value ::= null | number | string | {} | { members }
JsonValue(toks, i) ==
  IF i > Len(toks) THEN ParseFail
  ELSE LET tk == toks[i] IN
    CASE tk = L("null") -> ParseOk(JNull, i + 1)
      [] tk.k = "num" -> ParseOk(JNum(tk.s), i + 1)
      [] tk.k = "str" -> ParseOk(JStr(tk.s), i + 1)
      [] tk = P("{") ->
           IF i + 1 <= Len(toks) /\ toks[i + 1] = P("}")
           THEN ParseOk(JObj(<<>>), i + 2)
           ELSE JsonMembers(toks, i + 1, <<>>)
      [] OTHER -> ParseFail

\* members ::= string : value ( , string : value )* }     (a later duplicate key wins)
JsonMembers(toks, i, m) ==
  IF i + 1 > Len(toks) THEN ParseFail
  ELSE IF toks[i].k # "str" \/ toks[i + 1] # P(":") THEN ParseFail
  ELSE LET r == JsonValue(toks, i + 2) IN
    IF ~r.ok THEN ParseFail
    ELSE LET m2 == (toks[i].s :> r.val) @@ m IN
      IF r.next > Len(toks) THEN ParseFail
      ELSE IF toks[r.next] = P("}") THEN ParseOk(JObj(m2), r.next + 1)
      ELSE IF toks[r.next] = P(",") THEN JsonMembers(toks, r.next + 1, m2)
      ELSE ParseFail

\* n8n-workflow's jsonParse without fallback: JSON.parse of the whole string, or throw.
jsonParse(toks) ==
  LET r == JsonValue(toks, 1) IN
    IF r.ok /\ r.next = Len(toks) + 1 THEN r ELSE ParseFail

\* parsedOutput?.output ?? parsedOutput
Unwrap(parsed) ==
  IF parsed.t = "obj" /\ "output" \in DOMAIN parsed.m /\ parsed.m["output"] # JNull
  THEN parsed.m["output"]
  ELSE parsed

\* (omit that misses the last of the fields it is given)
omitAllButLast(response, fields) ==
  [k \in (DOMAIN response) \ (fields \ {"agent_scratchpad"}) |-> response[k]]

\* lodash omit(response, ...fields)
omit(response, fields) == [k \in (DOMAIN response) \ fields |-> response[k]]

\* The raw response of a finished run: its output text and its other fields.
AgentResponse(raw, fields) == ("output" :> JRaw(raw)) @@ [f \in fields |-> JStr(f)]

\* The responses a finished run may resolve with: the enveloped payload of the
\* parser's contract, the bare payload, an envelope around null and plain text;
\* with all the bookkeeping fields or only some of them.
AgentResponses == {
  AgentResponse(<<P("{"), S("output"), P(":"), P("{"), S("a"), P(":"), N("1"), P("}"), P("}")>>,
                OMITTED_FIELDS \cup {"intermediateSteps"}),
  AgentResponse(<<P("{"), S("a"), P(":"), N("1"), P("}")>>,
                {"input", "chat_history"}),
  AgentResponse(<<P("{"), S("output"), P(":"), L("null"), P("}")>>,
                OMITTED_FIELDS \cup {"intermediateSteps"}),
  AgentResponse(<<W("balance"), N("12.5")>>,
                {"input", "chat_history"}) }

\* What getTools can discover: a tool with its plugin, or with none.
DiscoveredPairs == {
  [tool |-> "t1", plugin |-> "p1"],
  [tool |-> "t2", plugin |-> Undefined],
  [tool |-> "t3", plugin |-> "p2"] }

SeqsUpTo(set, n) == UNION { [1..k -> set] : k \in 0..n }

\* The mnemonic field of the credentials: missing, left empty, or filled in.
Mnemonics == {Undefined, "", "legal winner thank year wave sausage"}

(***************************************************************************)
(* Errors                                                                   *)
(***************************************************************************)
Error(name, message) == [name |-> name, message |-> message]

NoError == Error("none", "")
InvalidConfiguration == Error("InvalidConfiguration", "invalid configuration")
InvalidState == Error("InvalidState", "invalid state")
ToolExecutionError == Error("ToolExecutionError", "tool failed")
MalformedOutput == Error("MalformedOutput", "Unexpected token in JSON")
EmptyTextError == Error("NodeOperationError", EMPTY_TEXT_MESSAGE)
\* A failing completion, as the transport throws it: an error without a message.
ModelError == Error("ModelError", "")

(***************************************************************************)
(* State                                                                    *)
(***************************************************************************)
VARIABLES
  pc,              \* where execute() stands
  typeAgent,       \* getNodeParameter('agent', 0)
  nItems,          \* items.length
  continueOnFail,  \* this.continueOnFail()
  outputParser,    \* whether getOptionalOutputParser returned a parser
  toolsWithPlugins,\* getTools(this)
  mnemonic,        \* baseCredentials.mnemonic
  tools,           \* the tools view
  plugins,         \* the plugins view
  itemIndex,       \* the loop counter (0-based)
  returnData,      \* the result list
  wallet,          \* the Wallet of the current item
  binkAgent,       \* the N8nBinkAgent of the current item
  regIdx,          \* position of the registration loop in plugins (1-based)
  thrown,          \* the error execute() rejected with
  calls,           \* history: the calls made on the current binkAgent
  hist             \* history: what became of each processed item

vars == <<pc, typeAgent, nItems, continueOnFail, outputParser, toolsWithPlugins,
          mnemonic, tools, plugins, itemIndex, returnData, wallet, binkAgent,
          regIdx, thrown, calls, hist>>

config == <<typeAgent, nItems, continueOnFail, outputParser, toolsWithPlugins,
            mnemonic, tools, plugins>>

NoWallet == [seedPhrase |-> Undefined, index |-> -1]

NoResponse == <<>>

NoAgent == [id |-> -1, state |-> "Idle", mode |-> Undefined, maxIterations |-> 0,
            plugins |-> <<>>, iterations |-> 0,
            transcript |-> <<>>, execCalls |-> 0, planned |-> FALSE,
            planLeft |-> 0, replans |-> 0, error |-> NoError]

(***************************************************************************)
(* N8nBinkAgent: construction, registerPlugin, execute and the run          *)
(***************************************************************************)
\* new N8nBinkAgent(llm, typeAgent, memory, tools, ..., n8nOptions)
NewAgent(id, mode, maxIterations) ==
  IF mode \in AgentModes /\ maxIterations > 0
  THEN [ok |-> TRUE,
        agent |-> [NoAgent EXCEPT !.id = id, !.state = "Configuring", !.mode = mode,
                                  !.maxIterations = maxIterations]]
  ELSE [ok |-> FALSE, error |-> InvalidConfiguration]

\* binkAgent.registerPlugin(plugin)
registerPlugin(agent, plugin) ==
  IF agent.state = "Configuring"
  THEN [ok |-> TRUE, agent |-> [agent EXCEPT !.plugins = Append(@, plugin)]]
  ELSE [ok |-> FALSE, error |-> InvalidState]

\* binkAgent.execute(input[, chatHistory]): the call itself, before the first iteration
\* (execCalls counts the calls received, accepted or not)
execute(agent) ==
  IF agent.state = "Configuring"
  THEN [ok |-> TRUE, agent |-> [agent EXCEPT !.state = "Running", !.execCalls = @ + 1]]
  ELSE [ok |-> FALSE, agent |-> [agent EXCEPT !.execCalls = @ + 1],
        error |-> InvalidState]

\* What one iteration can meet.
StepEvents == {"final", "tool-ok", "tool-error", "tool-fatal"}

\* (the bound compared with > instead of >=)
AfterIterationLate(agent) ==
  IF agent.iterations > agent.maxIterations
  THEN [agent EXCEPT !.state = "MaxIterationsReached"]
  ELSE agent

AfterIteration(agent) ==
  IF agent.iterations >= agent.maxIterations
  THEN [agent EXCEPT !.state = "MaxIterationsReached"]
  ELSE agent

\* (every tool error ends the run, recoverable or not)
ToolsAgentStepStrict(agent, ev) ==
  CASE ev = "final" -> [agent EXCEPT !.state = "Completed"]
    [] ev = "tool-ok" ->
         AfterIteration([agent EXCEPT !.iterations = @ + 1,
                                      !.transcript = Append(@, "tool-result")])
    [] OTHER ->
         [agent EXCEPT !.iterations = @ + 1, !.state = "Failed",
                       !.transcript = Append(@, "tool-error"),
                       !.error = ToolExecutionError]

\* One iteration of the tools agent: a final answer, or a tool call and its outcome.
ToolsAgentStep(agent, ev) ==
  CASE ev = "final" -> [agent EXCEPT !.state = "Completed"]
    [] ev = "tool-ok" ->
         AfterIteration([agent EXCEPT !.iterations = @ + 1,
                                      !.transcript = Append(@, "tool-result")])
    [] ev = "tool-error" ->
         AfterIteration([agent EXCEPT !.iterations = @ + 1,
                                      !.transcript = Append(@, "tool-error")])
    [] OTHER ->
         [agent EXCEPT !.iterations = @ + 1, !.state = "Failed",
                       !.error = ToolExecutionError]

\* One step of the plan-and-execute agent: the plan first, then one sub-goal per step;
\* a recoverable failure re-plans once, later ones are recorded and the plan goes on.
PlanAgentStep(agent, ev, k) ==
  IF ~agent.planned THEN [agent EXCEPT !.planned = TRUE, !.planLeft = k]
  ELSE IF agent.planLeft = 0 THEN [agent EXCEPT !.state = "Completed"]
  ELSE CASE ev \in {"final", "tool-ok"} ->
         AfterIteration([agent EXCEPT !.iterations = @ + 1,
                                      !.transcript = Append(@, "tool-result"),
                                      !.planLeft = @ - 1])
    [] ev = "tool-error" ->
         AfterIteration([agent EXCEPT !.iterations = @ + 1,
                                      !.transcript = Append(@, "tool-error"),
                                      !.replans = IF @ = 0 THEN 1 ELSE @,
                                      !.planLeft = IF agent.replans = 0 THEN k ELSE @ - 1])
    [] OTHER ->
         [agent EXCEPT !.iterations = @ + 1, !.state = "Failed",
                       !.error = ToolExecutionError]

RunStep(agent, ev, k) ==
  IF agent.mode = "toolsAgent" THEN ToolsAgentStep(agent, ev) ELSE PlanAgentStep(agent, ev, k)

\* The completion capability fails: not retried, the run is over.
ModelFailure(agent, err) == [agent EXCEPT !.state = "Failed", !.error = err]

(***************************************************************************)
(* BinkAgentNode.execute                                                    *)
(***************************************************************************)
Init ==
  /\ pc = "start"
  /\ typeAgent = Undefined
  /\ nItems = 0
  /\ continueOnFail = FALSE
  /\ outputParser = FALSE
  /\ toolsWithPlugins = <<>>
  /\ mnemonic = Undefined
  /\ tools = <<>>
  /\ plugins = <<>>
  /\ itemIndex = 0
  /\ returnData = <<>>
  /\ wallet = NoWallet
  /\ binkAgent = NoAgent
  /\ regIdx = 1
  /\ thrown = NoError
  /\ calls = <<>>
  /\ hist = <<>>

\* tools.push(tool.tool) for every discovered pair
ToolsView(pairs) == [i \in 1..Len(pairs) |-> pairs[i].tool]

\* (the views without the filter)
PluginsViewUnfiltered(pairs) == [i \in 1..Len(pairs) |-> pairs[i].plugin]

\* plugins.push(tool.plugin) for every pair, then filter(plugin => plugin !== undefined)
PluginsView(pairs) ==
  SelectSeq([i \in 1..Len(pairs) |-> pairs[i].plugin], LAMBDA p : p # Undefined)

\* a || b
OrElse(a, b) == IF a \in {Undefined, ""} THEN b ELSE a

\* (the wallet without the fallback)
BuildWalletNoFallback(m) == [seedPhrase |-> m, index |-> WALLET_INDEX]

\* new Wallet({ seedPhrase: mnemonic || placeholder, index: 0 }, network)
BuildWallet(m) == [seedPhrase |-> OrElse(m, PLACEHOLDER_SEED), index |-> WALLET_INDEX]

\* { json: { error: error.message || 'An error occurred' }, pairedItem: { item: itemIndex } }
ErrorItem(error, i) ==
  [json |-> [error |-> OrElse(error.message, DEFAULT_ERROR_MESSAGE)],
   pairedItem |-> [item |-> i]]

\* (unshift instead of push)
PushFront(data, entry) == <<entry>> \o data

\* returnData.push(entry)
Push(data, entry) == Append(data, entry)

\* The end of one turn of the loop: its block-scoped constants are gone.
LeaveItem ==
  /\ binkAgent' = NoAgent
  /\ wallet' = NoWallet
  /\ regIdx' = 1
  /\ calls' = <<>>

\* What the history keeps of a processed item; agent is the item's agent as it ends.
Outcome(failed, error, resp, agent) ==
  [item |-> itemIndex, failed |-> failed, error |-> error, response |-> resp,
   execCalls |-> agent.execCalls]

\* (the catch block without its `continue`: the error is recorded and thrown all the same)
CatchWithoutContinue(error, resp, agent) ==
  /\ hist' = Append(hist, Outcome(TRUE, error, resp, agent))
  /\ LeaveItem
  /\ returnData' = IF continueOnFail THEN Push(returnData, ErrorItem(error, itemIndex))
                   ELSE returnData
  /\ pc' = "raised"
  /\ thrown' = error
  /\ UNCHANGED itemIndex

\* The catch block: record the failure and go on, or re-throw.
Catch(error, resp, agent) ==
  /\ hist' = Append(hist, Outcome(TRUE, error, resp, agent))
  /\ LeaveItem
  /\ IF continueOnFail
     THEN /\ returnData' = Push(returnData, ErrorItem(error, itemIndex))
          /\ itemIndex' = itemIndex + 1
          /\ pc' = "loop"
          /\ thrown' = thrown
     ELSE /\ pc' = "raised"
          /\ thrown' = error
          /\ UNCHANGED <<returnData, itemIndex>>

\* Lines 271-292: the parameters, the connected parser and tools, the credentials,
\* and the two views of the discovered tools.
Start ==
  /\ pc = "start"
  /\ \E a \in AgentModes, n \in 0..MaxItems, c \in BOOLEAN, o \in BOOLEAN,
        tp \in SeqsUpTo(DiscoveredPairs, MaxTools), m \in Mnemonics :
       /\ typeAgent' = a
       /\ nItems' = n
       /\ continueOnFail' = c
       /\ outputParser' = o
       /\ toolsWithPlugins' = tp
       /\ mnemonic' = m
       /\ tools' = ToolsView(tp)
       /\ plugins' = PluginsView(tp)
  /\ pc' = "loop"
  /\ UNCHANGED <<itemIndex, returnData, wallet, binkAgent, regIdx, thrown, calls, hist>>

\* (the registration loop left out)
RegistrationSkipped == TRUE

\* Line 333: the registration loop has gone through the plugins view.
RegistrationDone == regIdx > Len(plugins)

\* An entry of the call history.
Call(agent, op, by, arg, result) ==
  [id |-> agent.id, item |-> itemIndex, op |-> op, by |-> by, arg |-> arg,
   result |-> IF result.ok THEN "ok" ELSE result.error.name]

\* (the two branches without the `else` between them)
RunAgentTwice(agent) == execute(execute(agent).agent)

\* Lines 349-354: with or without the chat history of a connected memory,
\* binkAgent.execute is called once.
RunAgent(agent) == execute(agent)

\* Lines 295-330: the model, the memory, the options, the wallet and a new agent.
BuildAgent ==
  /\ pc = "loop"
  /\ itemIndex < nItems
  /\ \E maxIterations \in 0..MaxIter :
       LET made == NewAgent(itemIndex, typeAgent, maxIterations) IN
         IF made.ok
         THEN /\ wallet' = BuildWallet(mnemonic)
              /\ binkAgent' = made.agent
              /\ pc' = "register"
              /\ UNCHANGED <<itemIndex, returnData, regIdx, thrown, calls, hist>>
         ELSE Catch(made.error, NoResponse, NoAgent)
  /\ UNCHANGED config

\* Lines 332-335: one turn of the registration loop.
RegisterPlugin ==
  /\ pc = "register"
  /\ ~RegistrationDone
  /\ LET r == registerPlugin(binkAgent, plugins[regIdx]) IN
       IF r.ok
       THEN /\ binkAgent' = r.agent
            /\ regIdx' = regIdx + 1
            /\ calls' = Append(calls, Call(binkAgent, "registerPlugin", "driver",
                                           plugins[regIdx], r))
            /\ UNCHANGED <<pc, itemIndex, returnData, wallet, thrown, hist>>
       ELSE Catch(r.error, NoResponse, binkAgent)
  /\ UNCHANGED config

\* Lines 337-354: the prompt of the item, then the call of binkAgent.execute.
CallExecute ==
  /\ pc = "register"
  /\ RegistrationDone
  /\ \E input \in {Undefined, "What is my BNB balance?"} :
       IF input = Undefined
       THEN Catch(EmptyTextError, NoResponse, binkAgent)
       ELSE LET r == RunAgent(binkAgent) IN
            IF r.ok
            THEN /\ binkAgent' = r.agent
                 /\ pc' = "running"
                 /\ calls' = Append(calls, Call(binkAgent, "execute", "driver", input, r))
                 /\ UNCHANGED <<itemIndex, returnData, wallet, regIdx, thrown, hist>>
            ELSE Catch(r.error, NoResponse, r.agent)
  /\ UNCHANGED config

\* The run inside binkAgent.execute: one iteration.
AgentStep ==
  /\ pc = "running"
  /\ binkAgent.state = "Running"
  /\ \E ev \in StepEvents, k \in 1..MaxPlan : binkAgent' = RunStep(binkAgent, ev, k)
  /\ UNCHANGED <<config, pc, itemIndex, returnData, wallet, regIdx, thrown, calls, hist>>

\* The run inside binkAgent.execute: the model call of an iteration fails.
AgentModelError ==
  /\ pc = "running"
  /\ binkAgent.state = "Running"
  /\ binkAgent' = ModelFailure(binkAgent, ModelError)
  /\ UNCHANGED <<config, pc, itemIndex, returnData, wallet, regIdx, thrown, calls, hist>>

\* binkAgent.execute rejects: the run failed.
AgentThrow ==
  /\ pc = "running"
  /\ binkAgent.state = "Failed"
  /\ Catch(binkAgent.error, NoResponse, binkAgent)
  /\ UNCHANGED config

\* Lines 357-362: with a parser connected, response.output is parsed and unwrapped.
ParseOutput(resp) ==
  LET r == jsonParse(resp["output"].v) IN
    IF r.ok
    THEN [ok |-> TRUE, response |-> [resp EXCEPT !["output"] = Unwrap(r.val)]]
    ELSE [ok |-> FALSE, error |-> MalformedOutput]

\* Lines 364-373: the item's result.
ItemResult(resp) == [json |-> omit(resp, OMITTED_FIELDS)]

\* Lines 351-375: binkAgent.execute resolves with the response of a finished run;
\* it is parsed when a parser is connected, stripped and pushed.
ExecuteResolves ==
  /\ pc = "running"
  /\ binkAgent.state \in {"Completed", "MaxIterationsReached"}
  /\ \E response \in AgentResponses :
       LET parsed == IF outputParser THEN ParseOutput(response)
                     ELSE [ok |-> TRUE, response |-> response] IN
         IF parsed.ok
         THEN /\ returnData' = Push(returnData, ItemResult(parsed.response))
              /\ hist' = Append(hist, Outcome(FALSE, NoError, response, binkAgent))
              /\ LeaveItem
              /\ itemIndex' = itemIndex + 1
              /\ pc' = "loop"
              /\ UNCHANGED thrown
         ELSE Catch(parsed.error, response, binkAgent)
  /\ UNCHANGED config

\* Line 389: return [returnData]
Return ==
  /\ pc = "loop"
  /\ itemIndex >= nItems
  /\ pc' = "done"
  /\ UNCHANGED <<config, itemIndex, returnData, wallet, binkAgent, regIdx, thrown,
                 calls, hist>>

Next ==
  \/ Start
  \/ BuildAgent
  \/ RegisterPlugin
  \/ CallExecute
  \/ AgentStep
  \/ AgentModelError
  \/ AgentThrow
  \/ ExecuteResolves
  \/ Return

Spec == Init /\ [][Next]_vars

\* Every awaited model or tool call of a run comes back (their timeouts belong to
\* the collaborators), so a running agent keeps taking iterations.
LiveSpec == Spec /\ WF_vars(AgentStep)

\* Some other caller holding the agent calls registerPlugin once execute was called.
LateRegisterPlugin ==
  /\ pc = "running"
  /\ Cardinality({j \in 1..Len(calls) : calls[j].by = "client"}) < MaxLateCalls
  /\ \E plugin \in {"p1", "p2"} :
       LET r == registerPlugin(binkAgent, plugin) IN
         /\ calls' = Append(calls, Call(binkAgent, "registerPlugin", "client", plugin, r))
         /\ binkAgent' = IF r.ok THEN r.agent ELSE binkAgent
  /\ UNCHANGED <<config, pc, itemIndex, returnData, wallet, regIdx, thrown, hist>>

ApiNext == Next \/ LateRegisterPlugin

\* The driver together with a caller that uses the agent's interface out of turn.
ApiSpec == Init /\ [][ApiNext]_vars


(***************************************************************************)
(* Properties                                                               *)
(***************************************************************************)
\* The entry of returnData that belongs to the j-th processed item, when it has one:
\* a failure without continue-on-fail ends the batch, so no entry is ever skipped.
HasEntry(j) == j <= Len(returnData)

Failures == {j \in 1..Len(hist) : hist[j].failed}

\* C1: per-item failure isolation. With continue-on-fail every failed item leaves
\* { error: message } (the default text when the error has no message) paired with
\* its index at its own place in the results, and the loop goes on to the next
\* item; without it the first failure is re-thrown, it is the last item touched and
\* nothing is added to the results.
C1_FailureIsolation ==
  \A j \in Failures :
    IF continueOnFail
    THEN /\ pc # "raised"
         /\ HasEntry(j)
         /\ returnData[j].json =
              [error |-> IF hist[j].error.message = "" THEN DEFAULT_ERROR_MESSAGE
                         ELSE hist[j].error.message]
         /\ returnData[j].pairedItem = [item |-> hist[j].item]
         /\ itemIndex > hist[j].item
    ELSE /\ pc = "raised"
         /\ thrown = hist[j].error
         /\ j = Len(hist)
         /\ itemIndex = hist[j].item
         /\ Len(returnData) = j - 1
         /\ ~ENABLED Next

\* A failed first item followed by a processed second one, under continue-on-fail.
C1_Witness ==
  /\ continueOnFail
  /\ Len(hist) = 2
  /\ hist[1].failed
  /\ ~hist[2].failed
  /\ Len(returnData) = 2

\* C1, the other half: a failure without continue-on-fail, after a good first item.
C1_WitnessAbort ==
  /\ ~continueOnFail
  /\ pc = "raised"
  /\ Len(hist) = 2
  /\ nItems > 1

HasKey(value, key) == value.t = "obj" /\ key \in DOMAIN value.m

\* C2: with a parser connected, response.output is parsed as JSON; a parsed
\* structure with an `output` key gives that key's value, any other the whole
\* structure, and an output that does not parse fails the item with
\* MalformedOutput instead of being passed through.
C2_OutputUnwrapped ==
  \A j \in 1..Len(hist) :
    (outputParser /\ hist[j].response # NoResponse) =>
      LET r == jsonParse(hist[j].response["output"].v) IN
        IF r.ok
        THEN /\ ~hist[j].failed
             /\ HasEntry(j)
             /\ returnData[j].json["output"] =
                  IF HasKey(r.val, "output") THEN r.val.m["output"] ELSE r.val
        ELSE /\ hist[j].failed
             /\ hist[j].error.name = "MalformedOutput"
             /\ HasEntry(j) => "pairedItem" \in DOMAIN returnData[j]

\* C3: a successful item's json is its response without the five bookkeeping
\* fields: nothing else is dropped, every other field keeps its value (output
\* too when no parser is connected), for either agent mode, and stripping the
\* result again changes nothing.
C3_FieldsStripped ==
  \A j \in 1..Len(hist) :
    ~hist[j].failed =>
      LET raw == hist[j].response
          json == returnData[j].json IN
        /\ HasEntry(j)
        /\ DOMAIN json = (DOMAIN raw) \ {"system_message", "formatting_instructions",
                                         "input", "chat_history", "agent_scratchpad"}
        /\ \A f \in DOMAIN json : (f # "output" \/ ~outputParser) => json[f] = raw[f]
        /\ omit(json, OMITTED_FIELDS) = json
        /\ ItemResult(json) = returnData[j]

\* A plan-and-execute item with a parser whose response carried all five fields.
C3_Witness ==
  /\ typeAgent = "planAndExecuteAgent"
  /\ outputParser
  /\ Len(hist) >= 1
  /\ ~hist[1].failed
  /\ OMITTED_FIELDS \subseteq DOMAIN hist[1].response
  /\ DOMAIN returnData[1].json = {"output", "intermediateSteps"}

IterationBound ==
  /\ binkAgent.iterations <= binkAgent.maxIterations
  /\ binkAgent.state = "Running" => binkAgent.iterations < binkAgent.maxIterations
  /\ binkAgent.state = "MaxIterationsReached" =>
       binkAgent.iterations = binkAgent.maxIterations
  /\ (/\ binkAgent.mode = "toolsAgent"
      /\ binkAgent.state \in {"Running", "MaxIterationsReached"})
       => Len(binkAgent.transcript) = binkAgent.iterations
  /\ (/\ binkAgent.mode = "toolsAgent"
      /\ pc = "running"
      /\ binkAgent.state \notin {"Completed", "Failed"}
      /\ binkAgent.iterations = binkAgent.maxIterations)
       => binkAgent.state = "MaxIterationsReached"

\* C4: a run never makes more than maxIterations iterations; a tools-agent run
\* that met only tool calls stops after exactly maxIterations of them in
\* MaxIterationsReached; and every run that was started ends in Completed,
\* MaxIterationsReached or Failed.
C4_IterationBound ==
  /\ []IterationBound
  /\ (pc = "running") ~> (binkAgent.state \in Terminal)

\* A tools-agent run of two tool calls and no final answer, stopped at the bound.
C4_Witness ==
  /\ binkAgent.mode = "toolsAgent"
  /\ binkAgent.maxIterations = 2
  /\ binkAgent.transcript = <<"tool-result", "tool-result">>
  /\ binkAgent.state = "MaxIterationsReached"

ExecuteCalled(j) == \E i \in 1..(j - 1) : calls[i].op = "execute"

\* C5: registerPlugin succeeds, and adds the plugin, as long as execute was not
\* called; called after execute it fails with InvalidState, whatever the plugin;
\* the driver makes none of its registerPlugin calls after execute, and has made
\* all of them when it calls execute.
C5_RegistrationOrdering ==
  /\ \A j \in 1..Len(calls) :
       calls[j].op = "registerPlugin" =>
         /\ calls[j].result = (IF ExecuteCalled(j) THEN "InvalidState" ELSE "ok")
         /\ calls[j].by = "driver" => ~ExecuteCalled(j)
  /\ \A j \in 1..Len(calls) :
       calls[j].op = "execute" =>
         /\ j = Len(plugins) + 1
         /\ \A i \in 1..Len(plugins) :
              /\ calls[i].op = "registerPlugin"
              /\ calls[i].arg = plugins[i]
  /\ pc = "running" => binkAgent.plugins = plugins

\* Two plugins registered before execute, and a registration after it turned down.
C5_Witness ==
  /\ Len(calls) = 4
  /\ calls[1].result = "ok"
  /\ calls[2].result = "ok"
  /\ calls[3].op = "execute"
  /\ calls[4].op = "registerPlugin"
  /\ calls[4].result = "InvalidState"
  /\ Len(binkAgent.plugins) = 2

\* C6: an agent's terminal state never changes; no agent receives execute twice;
\* the agent at work is the one made for the current item, and every processed
\* item's agent received execute at most once.
C6_SingleUse ==
  [][ /\ (binkAgent.state \in Terminal /\ binkAgent'.id = binkAgent.id)
          => binkAgent' = binkAgent
      /\ binkAgent'.execCalls <= 1
      /\ binkAgent'.state \in (Terminal \cup {"Running"}) => binkAgent'.execCalls = 1
      /\ binkAgent'.id >= 0 => binkAgent'.id = itemIndex'
      /\ (binkAgent'.id >= 0 /\ binkAgent.id # binkAgent'.id)
          => /\ binkAgent'.state = "Configuring"
             /\ binkAgent'.execCalls = 0
             /\ binkAgent'.plugins = <<>>
      /\ \A j \in 1..Len(hist') : hist'[j].execCalls <= 1 ]_vars

\* Two items done, each by an agent of its own that ran once.
C6_Witness ==
  /\ Len(hist) = 2
  /\ hist[1].execCalls = 1
  /\ hist[2].execCalls = 1
  /\ hist[1].item # hist[2].item

RECURSIVE PresentPlugins(_)
PresentPlugins(pairs) ==
  IF pairs = <<>> THEN <<>>
  ELSE (IF Head(pairs).plugin = Undefined THEN <<>> ELSE <<Head(pairs).plugin>>)
       \o PresentPlugins(Tail(pairs))

IsPrefix(a, b) == Len(a) <= Len(b) /\ \A i \in 1..Len(a) : a[i] = b[i]

\* C7: the tools view holds every discovered tool in discovery order; the plugins
\* view holds the plugins that are present, each as often as it was discovered and
\* in discovery order, and no absent one; what is registered on an agent is a
\* prefix of that view, and the whole of it once the agent runs.
C7_RegistryViews ==
  pc # "start" =>
    /\ Len(tools) = Len(toolsWithPlugins)
    /\ \A i \in 1..Len(tools) : tools[i] = toolsWithPlugins[i].tool
    /\ plugins = PresentPlugins(toolsWithPlugins)
    /\ \A i \in 1..Len(plugins) : plugins[i] # Undefined
    /\ Len(plugins) = Cardinality({i \in 1..Len(toolsWithPlugins) :
                                      toolsWithPlugins[i].plugin # Undefined})
    /\ IsPrefix(binkAgent.plugins, plugins)
    /\ pc = "running" => binkAgent.plugins = plugins

\* A tool without a plugin discovered before one with a plugin, and the agent running.
C7_Witness ==
  /\ pc = "running"
  /\ toolsWithPlugins = <<[tool |-> "t2", plugin |-> Undefined],
                          [tool |-> "t3", plugin |-> "p2"]>>
  /\ tools = <<"t2", "t3">>
  /\ binkAgent.plugins = <<"p2">>

\* C8: an iteration whose tool call fails recoverably adds a "tool-error" entry to
\* the transcript and leaves the run going (Running, or stopped at the iteration
\* bound, never Failed); one whose tool call fails for good puts the run in Failed,
\* and a failed run makes no further iteration.
C8_ToolErrors ==
  [][ /\ (/\ binkAgent.state = "Running"
          /\ binkAgent'.id = binkAgent.id
          /\ binkAgent'.transcript = Append(binkAgent.transcript, "tool-error"))
         => /\ binkAgent'.state # "Failed"
            /\ binkAgent'.iterations < binkAgent'.maxIterations
                 => binkAgent'.state = "Running"
            /\ binkAgent'.iterations = binkAgent.iterations + 1
      /\ (binkAgent'.state = "Failed" /\ binkAgent'.error = ToolExecutionError)
         => binkAgent'.transcript = binkAgent.transcript
      /\ (binkAgent.state = "Failed" /\ binkAgent'.id = binkAgent.id)
         => binkAgent' = binkAgent ]_vars

\* A run that went on to a second iteration after a recoverable tool error.
C8_Witness ==
  /\ binkAgent.mode = "toolsAgent"
  /\ binkAgent.transcript = <<"tool-error", "tool-result">>

\* A run ended by a tool error that was not recoverable, after one good iteration.
C8_WitnessFatal ==
  /\ binkAgent.state = "Failed"
  /\ binkAgent.error = ToolExecutionError
  /\ binkAgent.iterations = 2
  /\ Len(binkAgent.transcript) = 1

\* C9: the wallet is built on derivation index 0 with the credentials' mnemonic when
\* there is one, and with the one placeholder phrase when it is missing or empty;
\* no item fails because the mnemonic is missing.
C9_FallbackSeed ==
  /\ wallet # NoWallet =>
       /\ wallet.index = 0
       /\ wallet.seedPhrase =
            (IF mnemonic = Undefined \/ mnemonic = ""
             THEN "test test test test test test test test test test test test"
             ELSE mnemonic)
  /\ pc \in {"register", "running"} => wallet # NoWallet
  /\ \A j \in Failures :
       hist[j].error.name \in {"InvalidConfiguration", "NodeOperationError",
                               "ToolExecutionError", "ModelError", "MalformedOutput"}

\* Without a mnemonic in the credentials, a run on the placeholder wallet completes.
C9_Witness ==
  /\ mnemonic = Undefined
  /\ wallet.seedPhrase = PLACEHOLDER_SEED
  /\ binkAgent.state = "Completed"

\* C10: items are processed one at a time in input order, and a batch that returns
\* has one entry per item, in input order: the item's normalized response, or its
\* error record.
C10_BatchOrder ==
  /\ \A j \in 1..Len(hist) : hist[j].item = j - 1
  /\ Len(hist) = (IF pc = "raised" THEN itemIndex + 1 ELSE itemIndex)
  /\ itemIndex <= nItems
  /\ pc = "done" =>
       /\ Len(returnData) = nItems
       /\ Len(hist) = nItems
       /\ \A j \in 1..nItems :
            returnData[j] =
              IF hist[j].failed THEN ErrorItem(hist[j].error, j - 1)
              ELSE ItemResult(IF outputParser THEN ParseOutput(hist[j].response).response
                              ELSE hist[j].response)

\* A returned batch of two items, the first failed and the second answered.
C10_Witness ==
  /\ pc = "done"
  /\ nItems = 2
  /\ hist[1].failed
  /\ ~hist[2].failed
  /\ "pairedItem" \in DOMAIN returnData[1]
  /\ "pairedItem" \notin DOMAIN returnData[2]

=============================================================================
